---- MODULE Spec2Model ----
(***************************************************************************)
(* Model of the QEC-SFT analysis engine                                    *)
(* (src/backend/qec-ai-service/main.py, class QECAnalysisEngine).          *)
(*                                                                         *)
(* Numbers: confidences, weights and score thresholds are in hundredths    *)
(* (0.7 is 70).  A coherence score is the exact rational                   *)
(*     num / (100 * den)                                                   *)
(* kept as the record [num |-> sum of outcome*confidence, den |-> count],  *)
(* so that a comparison "score > 0.7" is num > 70 * den.  Floating-point   *)
(* rounding of the Python division is not modelled.                        *)
(*                                                                         *)
(* Text: an analysis type is a sequence of one-character strings, so that  *)
(* what the policy template embeds can be inspected character by           *)
(* character.                                                              *)
(***************************************************************************)
EXTENDS Integers, Sequences, FiniteSets, TLC

VARIABLES
    nvidia_api_key,          \* self.nvidia_api_key is set (main.py:60)
    provider_up,             \* environment: the AI provider answers calls
    pc,                      \* pc[t]: where coroutine t of analyze_governance_requirement is
    request,                 \* request[t]: the QECAnalysisRequest of t
    representations,         \* representations[t]: filename -> content generated so far
    call_outcome,            \* call_outcome[t]: outcome of each provider call of t, in order
    result,                  \* result[t]: how t left analyze_governance_requirement
    response,                \* response[t]: the QECAnalysisResponse t returned
    audit_log,               \* audit_log[t]: the audit entry recorded for t
    active_analyses,         \* Gauge qec_active_analyses (main.py:32)
    analysis_requests_total, \* Counter qec_analysis_requests_total (main.py:28)
    ai_provider_requests,    \* Counter qec_ai_provider_requests_total (main.py:30)
    coherence_score_gauge,   \* Gauge qec_coherence_score, per analysis (main.py:31)
    calls_issued,            \* history: number of session.post calls issued
    fn_in,                   \* input of a pipeline function exercised on its own
    fn_out                   \* its output

vars == <<nvidia_api_key, provider_up, pc, request, representations, call_outcome,
          result, response, audit_log, active_analyses, analysis_requests_total,
          ai_provider_requests, coherence_score_gauge, calls_issued, fn_in, fn_out>>

pipeline_vars == <<nvidia_api_key, provider_up, pc, request, representations,
                   call_outcome, result, response, audit_log, active_analyses,
                   analysis_requests_total, ai_provider_requests,
                   coherence_score_gauge, calls_issued>>

-----------------------------------------------------------------------------
(* Bounds of the model *)

\* number of coroutines of analyze_governance_requirement that may run concurrently
NumTasks == 2

\* longest stabilizer-result list given to the certificate synthesis on its own
MaxResults == 3

Tasks == 1..NumTasks

-----------------------------------------------------------------------------
(* Text helpers *)

Lower == {"a","b","c","d","e","f","g","h","i","j","k","l","m",
          "n","o","p","q","r","s","t","u","v","w","x","y","z"}
Upper == {"A","B","C","D","E","F","G","H","I","J","K","L","M",
          "N","O","P","Q","R","S","T","U","V","W","X","Y","Z"}
Digit == {"0","1","2","3","4","5","6","7","8","9"}

\* characters of a Rego identifier
IdentChars == Lower \cup Upper \cup Digit \cup {"_"}

IsIdentifier(s) == Len(s) > 0 /\ \A i \in 1..Len(s) : s[i] \in IdentChars

TypeFull       == <<"f","u","l","l">>
TypeSecurity   == <<"s","e","c","u","r","i","t","y">>
TypeCompliance == <<"c","o","m","p","l","i","a","n","c","e">>
TypeSpace      == <<"a"," ","b">>
TypeNewline    == <<"x","\n","}">>
TypeDotted     == <<"x",".","y">>
TypeEmpty      == <<>>

PackagePrefix == <<"a","c","g","s",".","q","e","c",".">>
ChecksSuffix  == <<"_","s","p","e","c","i","f","i","c","_","c","h","e","c","k","s">>

-----------------------------------------------------------------------------
(* Scores *)

ScoreGT(s, c) == s.num > c * s.den
ScoreGE(s, c) == s.num >= c * s.den
ScoreLT(s, c) == s.num < c * s.den

\* thresholds, in hundredths
CoherentAbove      == 0
LowRiskAbove       == 70
HighRiskBelow      == 30
CompliantFrom      == 80
NonCompliantBelow  == 50

-----------------------------------------------------------------------------
(* Template Library and representation contents *)

Kinds == <<"policy.rego", "specification.tla", "test_suite.py", "documentation.md">>

KindSet == {Kinds[i] : i \in 1..Len(Kinds)}

NoContent == [src |-> "none"]

get_template_content(filename, lsu) ==
    [src |-> "template", kind |-> filename, lsu |-> lsu]

\* data['choices'][0]['message']['content'] of the provider's answer to the
\* prompt for filename and lsu
ProviderContent(filename, lsu) ==
    [src |-> "nvidia", kind |-> filename, lsu |-> lsu]

TemplateOfFirstKind(lsu) ==
    [k \in KindSet |-> get_template_content(Kinds[1], lsu)]

template_generate_representations(lsu) ==
    [k \in KindSet |-> get_template_content(k, lsu)]

-----------------------------------------------------------------------------
(* Stabilizer checks *)

Stabilizers ==
    << [name |-> "syntax_validation",    weight |-> 80],
       [name |-> "semantic_consistency", weight |-> 100],
       [name |-> "security_analysis",    weight |-> 90],
       [name |-> "performance_check",    weight |-> 70],
       [name |-> "compliance_audit",     weight |-> 95] >>

\* the result list built from the draws of the random source (an outcome and
\* a confidence per stabilizer), one result per stabilizer in list order
run_stabilizer_checks(draws) ==
    [i \in 1..Len(Stabilizers) |->
        [name       |-> Stabilizers[i].name,
         outcome    |-> draws[i].outcome,
         confidence |-> draws[i].confidence,
         weight     |-> Stabilizers[i].weight]]

-----------------------------------------------------------------------------
(* Certificate synthesis *)

RECURSIVE SumWeighted(_)
SumWeighted(results) ==
    IF results = <<>> THEN 0
    ELSE (Head(results).outcome * Head(results).confidence * Head(results).weight) \div 100
         + SumWeighted(Tail(results))

RECURSIVE SumOutcomeConfidence(_)
SumOutcomeConfidence(results) ==
    IF results = <<>> THEN 0
    ELSE Head(results).outcome * Head(results).confidence
         + SumOutcomeConfidence(Tail(results))

CertStatusAtZero(score) ==
    IF ScoreGE(score, CoherentAbove) THEN "COHERENT" ELSE "INCOHERENT"

CertStatus(score) ==
    IF ScoreGT(score, CoherentAbove) THEN "COHERENT" ELSE "INCOHERENT"

RiskSeverityInclusive(score) ==
    IF ScoreGE(score, LowRiskAbove) THEN "LOW"
    ELSE IF ScoreLT(score, HighRiskBelow) THEN "HIGH"
    ELSE "MEDIUM"

RiskSeverity(score) ==
    IF ScoreGT(score, LowRiskAbove) THEN "LOW"
    ELSE IF ScoreLT(score, HighRiskBelow) THEN "HIGH"
    ELSE "MEDIUM"

MitigationStrategy(score) ==
    IF ScoreGT(score, LowRiskAbove) THEN "Standard monitoring procedures"
    ELSE "Manual review required"

\* lines 134-176 of _run_qec_analysis, given the representations and the
\* stabilizer results; exc names the exception that leaves the function
run_qec_analysis(reps, results, provider) ==
    IF Len(results) = 0
    THEN [exc |-> "ZeroDivisionError"]
    ELSE LET score == [num |-> SumOutcomeConfidence(results), den |-> Len(results)]
             status == CertStatus(score)
         IN  [exc |-> "none",
              payload |->
                  [artifact_type   |-> IF status = "COHERENT" THEN "rego_policy"
                                       ELSE "safety_protocol",
                   artifact_body   |-> status,
                   representations |-> reps],
              certificate_of_semantic_integrity |->
                  [status          |-> status,
                   syndrome_vector |-> [i \in 1..Len(results) |-> results[i].outcome],
                   coherence_score |-> score,
                   risk_assessment |->
                       [severity            |-> RiskSeverity(score),
                        mitigation_strategy |-> MitigationStrategy(score)]],
              ai_provider_used |-> provider]

-----------------------------------------------------------------------------
(* Policy generation, compliance, recommendations, audit entry *)

\* the places of the policy template that depend on the arguments
generate_opa_policy(certificate, analysis_type) ==
    [exc          |-> "none",
     header_score |-> certificate.coherence_score,
     header_status|-> certificate.status,
     package      |-> PackagePrefix \o analysis_type,
     allow_body   |-> <<"qec_coherence_validated", "security_requirements_met">>,
     allow_check  |-> analysis_type \o ChecksSuffix,
     check_rule   |-> analysis_type \o ChecksSuffix]

AssessStrictlyAbove(certificate) ==
    IF certificate.status = "COHERENT"
       /\ ScoreGT(certificate.coherence_score, CompliantFrom)
    THEN "COMPLIANT"
    ELSE IF certificate.status = "INCOHERENT"
            \/ ScoreLT(certificate.coherence_score, NonCompliantBelow)
    THEN "NON_COMPLIANT"
    ELSE "REVIEW_REQUIRED"

assess_compliance(certificate) ==
    IF certificate.status = "COHERENT"
       /\ ScoreGE(certificate.coherence_score, CompliantFrom)
    THEN "COMPLIANT"
    ELSE IF certificate.status = "INCOHERENT"
            \/ ScoreLT(certificate.coherence_score, NonCompliantBelow)
    THEN "NON_COMPLIANT"
    ELSE "REVIEW_REQUIRED"

generate_recommendations(certificate, analysis_type) ==
    (IF certificate.status = "COHERENT"
     THEN <<"Policy validation successful - ready for deployment",
            "Monitor performance in production environment",
            "Schedule regular compliance reviews">>
     ELSE <<"Address semantic coherence issues before deployment",
            "Review failed stabilizer checks",
            "Consider manual expert review">>)
    \o (IF analysis_type = TypeSecurity
        THEN <<"Conduct additional security penetration testing">>
        ELSE IF analysis_type = TypeCompliance
        THEN <<"Update compliance documentation">>
        ELSE <<>>)

AuditAllowsReview(resp) ==
    [decision_id       |-> resp.analysis_id,
     decision          |-> IF resp.compliance_status # "NON_COMPLIANT" THEN "ALLOW" ELSE "DENY",
     violations        |-> IF resp.compliance_status # "NON_COMPLIANT" THEN <<>>
                           ELSE << <<"QEC: ", resp.compliance_status>> >>,
     ai_confidence     |-> resp.confidence_score,
     compliance_status |-> resp.compliance_status]

\* the audit_entry dict built by _record_audit_entry
record_audit_entry(resp) ==
    [decision_id       |-> resp.analysis_id,
     decision          |-> IF resp.compliance_status = "COMPLIANT" THEN "ALLOW" ELSE "DENY",
     violations        |-> IF resp.compliance_status = "COMPLIANT" THEN <<>>
                           ELSE << <<"QEC: ", resp.compliance_status>> >>,
     ai_confidence     |-> resp.confidence_score,
     compliance_status |-> resp.compliance_status]

detect_ai_provider(key) == IF key THEN "nvidia-enhanced" ELSE "simulation"

-----------------------------------------------------------------------------
(* Metrics *)

AllTypes == {TypeFull, TypeSecurity, TypeCompliance, TypeSpace, TypeNewline,
             TypeDotted, TypeEmpty}

RequestLabels == AllTypes \X {"success", "error"}

ProviderLabels == {"attempt", "success", "error"}

Inc(counter, label) == [counter EXCEPT ![label] = @ + 1]

\* how a provider call ended: the answer was used, or the except clause of
\* the loop body ran
CallFailed(outcome) == outcome # "success"

\* lines 224 and 230: one outcome record per provider call
CountCall(counter, outcome) ==
    Inc(counter, IF CallFailed(outcome) THEN "error" ELSE "success")

StoreContentDiscardingOthers(reps, filename, outcome, lsu) ==
    IF CallFailed(outcome)
    THEN [k \in KindSet |-> IF reps[k] = NoContent /\ k # filename THEN NoContent
                            ELSE get_template_content(k, lsu)]
    ELSE [reps EXCEPT ![filename] = ProviderContent(filename, lsu)]

\* lines 220-230: the content stored for filename after its call
StoreContent(reps, filename, outcome, lsu) ==
    [reps EXCEPT ![filename] =
        IF CallFailed(outcome) THEN get_template_content(filename, lsu)
        ELSE ProviderContent(filename, lsu)]

NoClientTimeout == FALSE

\* aiohttp.ClientSession() is built without a timeout argument (line 201), so
\* the library's default total timeout bounds every session.post of the
\* session; its expiry raises asyncio.TimeoutError inside the try of line 203
ClientTimeoutExpires == TRUE

-----------------------------------------------------------------------------
(* The orchestrator's try / except / finally *)

DecUnlessCancelled(gauge, how) ==
    IF how = "cancelled" THEN gauge ELSE gauge - 1

\* finally: active_analyses.dec() (lines 122-123); how is "response",
\* "exception" or "cancelled"
ExitGauge(gauge, how) == gauge - 1

CountRequestUnlabelled(counter, analysis_type, how) ==
    IF how = "response" THEN Inc(counter, <<TypeFull, "success">>)
    ELSE IF how = "exception" THEN Inc(counter, <<TypeFull, "error">>)
    ELSE counter

\* lines 108-111 and 115-120: CancelledError is not an Exception, so a
\* cancelled call passes the except clause and counts nothing
CountRequest(counter, analysis_type, how) ==
    IF how = "response" THEN Inc(counter, <<analysis_type, "success">>)
    ELSE IF how = "exception" THEN Inc(counter, <<analysis_type, "error">>)
    ELSE counter

\* the step of the try body that raises, given the step `fault` made to
\* raise, or "none"; the policy step runs only for integration_mode 'opa'
RaisedStep(fault, req, qec) ==
    IF fault \in {"stabilizers", "synthesis"} THEN fault
    ELSE IF qec.exc # "none" THEN "synthesis"
    ELSE IF fault = "policy" /\ req.integration_mode # "opa" THEN "none"
    ELSE fault

\* what the caller of the endpoint gets (lines 113, 121 and 529-537)
Surfaced(raised, exc) ==
    IF raised = "none"
    THEN [kind |-> "response", raised |-> "none"]
    ELSE [kind |-> "HTTPException", status_code |-> 500, raised |-> raised,
          exc |-> exc]

-----------------------------------------------------------------------------
(* Initial state *)

NoRequest  == [lsu |-> "none"]
NoResult   == [kind |-> "none"]
NoResponse == [analysis_id |-> 0]
NoAudit    == [decision_id |-> 0]
NoScore    == [num |-> 0, den |-> 0]
NoInput    == [fn |-> "none"]
NoOutput   == [exc |-> "unset"]

EngineIdle ==
    /\ pc = [t \in Tasks |-> "idle"]
    /\ request = [t \in Tasks |-> NoRequest]
    /\ representations = [t \in Tasks |-> [k \in KindSet |-> NoContent]]
    /\ call_outcome = [t \in Tasks |-> <<>>]
    /\ result = [t \in Tasks |-> NoResult]
    /\ response = [t \in Tasks |-> NoResponse]
    /\ audit_log = [t \in Tasks |-> NoAudit]
    /\ active_analyses = 0
    /\ analysis_requests_total = [l \in RequestLabels |-> 0]
    /\ ai_provider_requests = [l \in ProviderLabels |-> 0]
    /\ coherence_score_gauge = [t \in Tasks |-> NoScore]
    /\ calls_issued = 0

Init ==
    /\ nvidia_api_key \in BOOLEAN
    /\ provider_up \in BOOLEAN
    /\ EngineIdle
    /\ fn_in = NoInput
    /\ fn_out = NoOutput

-----------------------------------------------------------------------------
(* analyze_governance_requirement, one action per stretch between awaits *)

\* entry up to the first suspension: the gauge is incremented; with a
\* credential the attempt is counted and the first call is issued, without
\* one the templates are taken
Start(t, lsus, types, modes) ==
    /\ pc[t] = "idle"
    /\ \E lsu \in lsus, ty \in types, mode \in modes :
          /\ request' = [request EXCEPT ![t] =
                 [lsu |-> lsu, analysis_type |-> ty, integration_mode |-> mode]]
          /\ representations' =
                 IF nvidia_api_key THEN representations
                 ELSE [representations EXCEPT ![t] =
                          template_generate_representations(lsu)]
    /\ active_analyses' = active_analyses + 1
    /\ IF nvidia_api_key
       THEN /\ ai_provider_requests' = Inc(ai_provider_requests, "attempt")
            /\ calls_issued' = calls_issued + 1
            /\ pc' = [pc EXCEPT ![t] = "post"]
       ELSE /\ UNCHANGED <<ai_provider_requests, calls_issued>>
            /\ pc' = [pc EXCEPT ![t] = "analyze"]
    /\ UNCHANGED <<nvidia_api_key, provider_up, call_outcome, result, response,
                   audit_log, analysis_requests_total, coherence_score_gauge,
                   fn_in, fn_out>>

\* the call for the current filename ends with `outcome`; the next call is
\* issued, or the loop ends
CallEnds(t, outcome) ==
    LET n    == Len(call_outcome[t]) + 1
        last == n = Len(Kinds)
    IN  /\ representations' = [representations EXCEPT ![t] =
                                  StoreContent(@, Kinds[n], outcome, request[t].lsu)]
        /\ ai_provider_requests' = CountCall(ai_provider_requests, outcome)
        /\ call_outcome' = [call_outcome EXCEPT ![t] = Append(@, outcome)]
        /\ calls_issued' = IF last THEN calls_issued ELSE calls_issued + 1
        /\ pc' = [pc EXCEPT ![t] = IF last THEN "analyze" ELSE "post"]
        /\ UNCHANGED <<nvidia_api_key, provider_up, request, result, response,
                       audit_log, active_analyses, analysis_requests_total,
                       coherence_score_gauge, fn_in, fn_out>>

\* the provider answers: 200 with content, a transport error, a non-200
\* status, or a 200 whose body lacks the content field
Respond(t, outcomes) ==
    /\ pc[t] = "post"
    /\ provider_up
    /\ \E outcome \in outcomes : CallEnds(t, outcome)

\* the provider has not answered when the session's total timeout expires
Timeout(t) ==
    /\ pc[t] = "post"
    /\ ~provider_up
    /\ ClientTimeoutExpires
    /\ CallEnds(t, "timeout")

\* the task is cancelled while it awaits the provider
Cancel(t) ==
    /\ pc[t] = "post"
    /\ pc' = [pc EXCEPT ![t] = "cancelled"]
    /\ result' = [result EXCEPT ![t] = [kind |-> "CancelledError", raised |-> "none"]]
    /\ analysis_requests_total' =
           CountRequest(analysis_requests_total, request[t].analysis_type, "cancelled")
    /\ active_analyses' = ExitGauge(active_analyses, "cancelled")
    /\ representations' = [representations EXCEPT ![t] = [k \in KindSet |-> NoContent]]
    /\ call_outcome' = [call_outcome EXCEPT ![t] = <<>>]
    /\ UNCHANGED <<nvidia_api_key, provider_up, request, response, audit_log,
                   ai_provider_requests, coherence_score_gauge, calls_issued,
                   fn_in, fn_out>>

\* lines 91-103: the QECAnalysisResponse built from the steps' results
BuildResponse(t, req, qec) ==
    LET cert == qec.certificate_of_semantic_integrity
    IN  [analysis_id       |-> t,
         lsu_input         |-> req.lsu,
         qec_result        |-> qec,
         opa_policy        |-> IF req.integration_mode = "opa"
                               THEN generate_opa_policy(cert, req.analysis_type)
                               ELSE [exc |-> "none", package |-> <<>>],
         compliance_status |-> assess_compliance(cert),
         recommendations   |-> generate_recommendations(cert, req.analysis_type),
         ai_provider_used  |-> qec.ai_provider_used,
         confidence_score  |-> cert.coherence_score]

\* the exits of the try statement, given the step that raised (or "none"),
\* the analysis result and the response
Leave(t, raised, exc, qec, resp) ==
    LET how == IF raised = "none" THEN "response" ELSE "exception"
    IN  /\ result' = [result EXCEPT ![t] = Surfaced(raised, exc)]
        /\ response' = [response EXCEPT ![t] = resp]
        /\ coherence_score_gauge' = [coherence_score_gauge EXCEPT ![t] =
               IF raised \in {"none", "audit"}
               THEN qec.certificate_of_semantic_integrity.coherence_score
               ELSE @]
        /\ audit_log' = [audit_log EXCEPT ![t] =
               IF raised = "none" THEN record_audit_entry(resp) ELSE @]
        /\ analysis_requests_total' =
               CountRequest(analysis_requests_total, request[t].analysis_type, how)
        /\ active_analyses' = ExitGauge(active_analyses, how)
        /\ pc' = [pc EXCEPT ![t] = IF raised = "none" THEN "returned" ELSE "failed"]

\* from the stabilizer checks to the return or the raise (lines 132-176 of
\* _run_qec_analysis, then lines 75-123): no suspension in between.  `fault`
\* is the step made to raise, if any.
Finish(t, drawsets, faults) ==
    /\ pc[t] = "analyze"
    /\ \E draws \in drawsets, fault \in faults :
        \E qec \in {run_qec_analysis(representations[t], run_stabilizer_checks(draws),
                                     detect_ai_provider(nvidia_api_key))} :
        \E raised \in {RaisedStep(fault, request[t], qec)} :
        \E resp \in {IF raised = "none" THEN BuildResponse(t, request[t], qec)
                     ELSE NoResponse} :
            Leave(t, raised,
                  IF raised = "synthesis" /\ fault # "synthesis" THEN qec.exc
                  ELSE "Injected",
                  qec, resp)
    /\ representations' = [representations EXCEPT ![t] = [k \in KindSet |-> NoContent]]
    /\ call_outcome' = [call_outcome EXCEPT ![t] = <<>>]
    /\ UNCHANGED <<nvidia_api_key, provider_up, request, ai_provider_requests,
                   calls_issued, fn_in, fn_out>>

-----------------------------------------------------------------------------
(* Inputs *)

\* confidences drawn for outcome 1 (from [0.7, 0.95]) and for outcome -1
\* (from [0.3, 0.6])
ConfPass == {70, 95}
ConfFail == {35, 40, 60}

Draw(o, c) == [outcome |-> o, confidence |-> c]

DrawsAllPassHigh == <<Draw(1,95), Draw(1,95), Draw(1,95), Draw(1,95), Draw(1,95)>>
DrawsAllPassLow  == <<Draw(1,70), Draw(1,70), Draw(1,70), Draw(1,70), Draw(1,70)>>
DrawsOneFail     == <<Draw(1,95), Draw(-1,60), Draw(1,95), Draw(1,95), Draw(1,95)>>
DrawsTwoFail     == <<Draw(1,70), Draw(1,70), Draw(1,70), Draw(-1,40), Draw(-1,40)>>
DrawsZero        == <<Draw(1,70), Draw(-1,40), Draw(1,70), Draw(-1,60), Draw(-1,40)>>
DrawsAllFail     == <<Draw(-1,35), Draw(-1,60), Draw(-1,60), Draw(-1,40), Draw(-1,60)>>

DrawSeqs == {DrawsAllPassHigh, DrawsAllPassLow, DrawsOneFail, DrawsTwoFail,
             DrawsZero, DrawsAllFail}

Outcomes == {"success", "transport_error", "bad_status", "missing_field"}

Faults == {"none", "stabilizers", "synthesis", "policy", "compliance",
           "recommendations", "audit"}

Modes == {"opa", "none"}

-----------------------------------------------------------------------------
(* Concurrent requests *)

TaskStep(t) ==
    \/ Respond(t, {"success"})
    \/ Timeout(t)
    \/ Finish(t, {DrawsAllPassHigh, DrawsZero}, Faults)

Next ==
    \E t \in Tasks :
        \/ Start(t, {"L1"}, {TypeFull, TypeSecurity}, {"opa"})
        \/ TaskStep(t)
        \/ Cancel(t)

Spec == Init /\ [][Next]_vars

-----------------------------------------------------------------------------
(* Concurrent requests under a fair event loop *)

LiveStep(t) ==
    \/ Respond(t, {"success"})
    \/ Timeout(t)
    \/ Finish(t, {DrawsAllPassHigh}, {"none", "synthesis"})

LiveNext ==
    \E t \in Tasks :
        \/ Start(t, {"L1"}, {TypeFull}, {"opa"})
        \/ LiveStep(t)
        \/ Cancel(t)

\* the event loop resumes every coroutine whose awaited call has ended (by an
\* answer or by the timeout) and runs it to its next suspension; nothing
\* obliges a request to arrive or a task to be cancelled
LiveSpec == Init /\ [][LiveNext]_vars /\ \A t \in Tasks : WF_vars(LiveStep(t))

-----------------------------------------------------------------------------
(* One request, every input *)

PipeNext ==
    \/ Start(1, {"L1", "L2"}, {TypeFull, TypeSecurity, TypeCompliance}, Modes)
    \/ Respond(1, Outcomes)
    \/ Timeout(1)
    \/ Cancel(1)
    \/ Finish(1, DrawSeqs, Faults)

PipeSpec == Init /\ [][PipeNext]_vars

-----------------------------------------------------------------------------
(* The pipeline's pure steps, each applied to inputs of its own *)

FnDraws == {Draw(1, c) : c \in ConfPass} \cup {Draw(-1, c) : c \in ConfFail}

ResultElems ==
    {[name |-> "check", outcome |-> d.outcome, confidence |-> d.confidence,
      weight |-> w] : d \in FnDraws, w \in {70, 100}}

ResultLists == UNION {[1..n -> ResultElems] : n \in 0..MaxResults}

ScoreGrid == {5 * i : i \in -20..20} \cup {-1, 1, 49, 51, 79, 81}

Certificates ==
    {[status |-> st, coherence_score |-> [num |-> x, den |-> 1]] :
        st \in {"COHERENT", "INCOHERENT"}, x \in ScoreGrid}

\* the stabilizer lists (name and weight) a deployment may want run: the
\* first n of the five, n = 5 being the list of the source
ConfiguredSets == {SubSeq(Stabilizers, 1, n) : n \in 1..Len(Stabilizers)}

FnInputs ==
    {[fn |-> "run_qec_analysis", results |-> r] : r \in ResultLists}
    \cup {[fn |-> "run_stabilizer_checks", configured |-> c, draws |-> d] :
             c \in ConfiguredSets, d \in DrawSeqs}
    \cup {[fn |-> "assess_compliance", certificate |-> c] : c \in Certificates}
    \cup {[fn |-> "generate_opa_policy", certificate |-> c, analysis_type |-> ty] :
             c \in {[status |-> "COHERENT", coherence_score |-> [num |-> 85, den |-> 1]],
                    [status |-> "INCOHERENT", coherence_score |-> [num |-> -10, den |-> 1]]},
             ty \in AllTypes}

FnInit ==
    /\ nvidia_api_key = FALSE
    /\ provider_up = TRUE
    /\ EngineIdle
    /\ fn_in \in FnInputs
    /\ fn_out = NoOutput

Synthesize ==
    /\ fn_in.fn = "run_qec_analysis"
    /\ fn_out = NoOutput
    /\ fn_out' = run_qec_analysis(template_generate_representations("L1"),
                                  fn_in.results, detect_ai_provider(nvidia_api_key))
    /\ UNCHANGED <<pipeline_vars, fn_in>>

AssessCompliance ==
    /\ fn_in.fn = "assess_compliance"
    /\ fn_out = NoOutput
    /\ fn_out' = [exc |-> "none", value |-> assess_compliance(fn_in.certificate)]
    /\ UNCHANGED <<pipeline_vars, fn_in>>

GeneratePolicy ==
    /\ fn_in.fn = "generate_opa_policy"
    /\ fn_out = NoOutput
    /\ fn_out' = generate_opa_policy(fn_in.certificate, fn_in.analysis_type)
    /\ UNCHANGED <<pipeline_vars, fn_in>>

\* _run_stabilizer_checks(lsu, representations), then the synthesis on its
\* results: neither takes nor reads a stabilizer list, so fn_in.configured is
\* not among the arguments
RunStabilizers ==
    /\ fn_in.fn = "run_stabilizer_checks"
    /\ fn_out = NoOutput
    /\ \E results \in {run_stabilizer_checks(fn_in.draws)} :
           fn_out' = [exc     |-> "none",
                      results |-> results,
                      qec     |-> run_qec_analysis(
                                      template_generate_representations("L1"),
                                      results, detect_ai_provider(nvidia_api_key))]
    /\ UNCHANGED <<pipeline_vars, fn_in>>

FnNext == Synthesize \/ AssessCompliance \/ GeneratePolicy \/ RunStabilizers

FnSpec == FnInit /\ [][FnNext]_vars

-----------------------------------------------------------------------------
(* Claims *)

InFlight(t) == pc[t] \in {"post", "analyze"}

Exited(t) == pc[t] \in {"returned", "failed", "cancelled"}

\* C1: the in-flight gauge always equals the number of calls that have entered
\* analyze_governance_requirement and not yet left it (by return, by an
\* exception of a pipeline step, or by cancellation); it is never negative and
\* is back at its initial value once every call has exited.
C1_GaugeCountsInFlight ==
    /\ active_analyses = Cardinality({t \in Tasks : InFlight(t)})
    /\ active_analyses >= 0
    /\ (\A t \in Tasks : ~InFlight(t)) => active_analyses = 0

\* one call was cancelled while awaiting the provider, another left by an
\* exception raised in the certificate synthesis
C1_Witness ==
    /\ \E t \in Tasks : pc[t] = "cancelled"
    /\ \E t \in Tasks : pc[t] = "failed" /\ result[t].raised = "synthesis"
    /\ active_analyses = 0

\* C2: an empty stabilizer-result list makes the certificate synthesis fail
\* with InvalidConfiguration (no division, no certificate).
C2_EmptyIsInvalidConfiguration ==
    (fn_in.fn = "run_qec_analysis" /\ fn_in.results = <<>> /\ fn_out # NoOutput)
        => fn_out.exc = "InvalidConfiguration"

\* C3: a request whose audit recorder raised still returns its response and is
\* counted as a success; no error is surfaced for it.
C3_AuditFailureSwallowed ==
    \A t \in Tasks :
        result[t].kind = "HTTPException" => result[t].raised # "audit"

C5_PerKindFallback ==
    nvidia_api_key =>
        /\ pc[1] \in {"post", "analyze"} =>
              /\ DOMAIN representations[1] = KindSet
              /\ \A i \in 1..Len(Kinds) :
                    IF i > Len(call_outcome[1])
                    THEN representations[1][Kinds[i]].src = "none"
                    ELSE /\ representations[1][Kinds[i]].kind = Kinds[i]
                         /\ representations[1][Kinds[i]].lsu = request[1].lsu
                         /\ representations[1][Kinds[i]].src =
                                IF call_outcome[1][i] = "success" THEN "nvidia"
                                ELSE "template"
        /\ pc[1] = "analyze" => Len(call_outcome[1]) = Len(Kinds)

\* a failure between two successes, and a failure at the end
C5_Witness ==
    /\ nvidia_api_key
    /\ pc[1] = "analyze"
    /\ call_outcome[1] = <<"success", "bad_status", "success", "missing_field">>

\* C6: the attempts recorded equal the provider calls issued, and once no
\* call is pending or was cancelled these equal the successes plus the errors.
C6_AttemptPerCall ==
    /\ ai_provider_requests["attempt"] = calls_issued
    /\ (\A t \in Tasks : pc[t] \notin {"post", "cancelled"}) =>
           calls_issued = ai_provider_requests["success"] + ai_provider_requests["error"]

CountOf(ty, states) ==
    Cardinality({t \in Tasks : pc[t] \in states /\ request[t].analysis_type = ty})

\* C7 as stated: every request that has left the orchestrator, whichever way,
\* incremented exactly one outcome counter of its analysis type: 'success'
\* if it returned a response, 'error' otherwise.
C7_EveryExitCounted ==
    \A ty \in AllTypes :
        /\ analysis_requests_total[<<ty, "success">>] = CountOf(ty, {"returned"})
        /\ analysis_requests_total[<<ty, "error">>] = CountOf(ty, {"failed", "cancelled"})

\* C7 amended: an exception of a pipeline step is surfaced as HTTP 500; every
\* request that returned counted one 'success' and every request that failed
\* counted one 'error', under its own analysis type; a cancelled request
\* counted nothing.
C7_ExitCountedUnlessCancelled ==
    /\ \A ty \in AllTypes :
          /\ analysis_requests_total[<<ty, "success">>] = CountOf(ty, {"returned"})
          /\ analysis_requests_total[<<ty, "error">>] = CountOf(ty, {"failed"})
    /\ \A t \in Tasks :
          /\ pc[t] = "failed" =>
                result[t].kind = "HTTPException" /\ result[t].status_code = 500
          /\ pc[t] = "returned" => result[t].kind = "response"
          /\ pc[t] = "cancelled" => result[t].kind = "CancelledError"

\* a security request failed in the policy step while another request was
\* cancelled
C7_Witness ==
    /\ \E t \in Tasks : /\ pc[t] = "failed"
                        /\ result[t].raised = "policy"
                        /\ request[t].analysis_type = TypeSecurity
    /\ \E t \in Tasks : pc[t] = "cancelled"

\* C8: the analysis type embedded in the package name and in the
\* '<type>_specific_checks' rule name is a safe identifier, or the generation
\* is rejected as InvalidConfiguration.
C8_PolicyTypeSanitized ==
    (fn_in.fn = "generate_opa_policy" /\ fn_out # NoOutput) =>
        \/ fn_out.exc = "InvalidConfiguration"
        \/ /\ IsIdentifier(SubSeq(fn_out.package, Len(PackagePrefix) + 1,
                                  Len(fn_out.package)))
           /\ IsIdentifier(fn_out.check_rule)
           /\ IsIdentifier(fn_out.allow_check)

\* C9: COMPLIANT for COHERENT with score >= 0.8; NON_COMPLIANT for INCOHERENT
\* whatever the score and for COHERENT with score < 0.5; REVIEW_REQUIRED for
\* COHERENT with score in [0.5, 0.8).
C9_ComplianceRule ==
    (fn_in.fn = "assess_compliance" /\ fn_out # NoOutput) =>
        LET st == fn_in.certificate.status
            x  == fn_in.certificate.coherence_score.num
        IN  /\ (st = "COHERENT" /\ x >= 80) => fn_out.value = "COMPLIANT"
            /\ st = "INCOHERENT" => fn_out.value = "NON_COMPLIANT"
            /\ (st = "COHERENT" /\ x < 50) => fn_out.value = "NON_COMPLIANT"
            /\ (st = "COHERENT" /\ x >= 50 /\ x < 80) => fn_out.value = "REVIEW_REQUIRED"

\* INCOHERENT with score 0.9 was assessed NON_COMPLIANT
C9_Witness ==
    /\ fn_in.fn = "assess_compliance"
    /\ fn_in.certificate.status = "INCOHERENT"
    /\ fn_in.certificate.coherence_score.num = 90
    /\ fn_out # NoOutput
    /\ fn_out.value = "NON_COMPLIANT"

\* C10: in every certificate the synthesis produces, status is COHERENT iff
\* the sum of outcome * confidence over the results (hence the score) is
\* strictly positive; zero and negative scores give INCOHERENT.
C10_StatusStrictlyPositive ==
    (fn_in.fn = "run_qec_analysis" /\ fn_out # NoOutput /\ fn_out.exc = "none") =>
        LET cert == fn_out.certificate_of_semantic_integrity
        IN  /\ cert.status \in {"COHERENT", "INCOHERENT"}
            /\ cert.status = "COHERENT" <=> cert.coherence_score.num > 0
            /\ cert.coherence_score.den = Len(fn_in.results)

\* a certificate whose score is exactly 0 is INCOHERENT
C10_Witness ==
    /\ fn_in.fn = "run_qec_analysis"
    /\ fn_out # NoOutput
    /\ fn_out.exc = "none"
    /\ fn_out.certificate_of_semantic_integrity.coherence_score.num = 0
    /\ fn_out.certificate_of_semantic_integrity.status = "INCOHERENT"

\* C11: the severity of a certificate is LOW when its score is above 0.7, HIGH
\* when its score is below 0.3 and MEDIUM otherwise; both boundaries are
\* exclusive, so a score of exactly 0.7 or exactly 0.3 is MEDIUM, and every
\* score gets exactly one of the three severities
C11_SeverityPartition ==
    (fn_in.fn = "run_qec_analysis" /\ fn_out # NoOutput /\ fn_out.exc = "none")
        => LET cert  == fn_out.certificate_of_semantic_integrity
               num   == cert.coherence_score.num
               den   == cert.coherence_score.den
               sev   == cert.risk_assessment.severity
           IN  /\ sev \in {"LOW", "MEDIUM", "HIGH"}
               /\ sev = "LOW"    <=> num > 70 * den
               /\ sev = "HIGH"   <=> num < 30 * den
               /\ sev = "MEDIUM" <=> (30 * den <= num /\ num <= 70 * den)
               /\ (num = 70 * den \/ num = 30 * den) => sev = "MEDIUM"

\* a certificate whose score is exactly 0.7 has severity MEDIUM
C11_Witness ==
    /\ fn_in.fn = "run_qec_analysis"
    /\ fn_out # NoOutput
    /\ fn_out.exc = "none"
    /\ fn_out.certificate_of_semantic_integrity.coherence_score.num
           = 70 * fn_out.certificate_of_semantic_integrity.coherence_score.den
    /\ fn_out.certificate_of_semantic_integrity.risk_assessment.severity = "MEDIUM"

\* C12: the audit entry of a returned analysis has decision ALLOW exactly when
\* the response's compliance status is COMPLIANT and DENY for NON_COMPLIANT
\* and REVIEW_REQUIRED; its violations are empty exactly when the decision is
\* ALLOW, and otherwise hold exactly one entry, which names the compliance
\* status
C12_AuditDecision ==
    pc[1] = "returned"
        => LET entry  == audit_log[1]
               status == response[1].compliance_status
           IN  /\ entry # NoAudit
               /\ entry.decision_id = response[1].analysis_id
               /\ status \in {"COMPLIANT", "NON_COMPLIANT", "REVIEW_REQUIRED"}
               /\ entry.decision \in {"ALLOW", "DENY"}
               /\ entry.decision = "ALLOW" <=> status = "COMPLIANT"
               /\ entry.violations = <<>> <=> entry.decision = "ALLOW"
               /\ entry.decision = "DENY"
                      => /\ Len(entry.violations) = 1
                         /\ entry.violations[1] = <<"QEC: ", status>>

\* an analysis returned with REVIEW_REQUIRED, recorded as DENY with the one
\* violation naming REVIEW_REQUIRED
C12_Witness ==
    /\ pc[1] = "returned"
    /\ response[1].compliance_status = "REVIEW_REQUIRED"
    /\ audit_log[1].decision = "DENY"
    /\ audit_log[1].violations = << <<"QEC: ", "REVIEW_REQUIRED">> >>

\* the sum of outcome * confidence over the first n results
RECURSIVE PlainSum(_, _)
PlainSum(results, n) ==
    IF n = 0 THEN 0
    ELSE PlainSum(results, n - 1) + results[n].outcome * results[n].confidence

\* the result list with the weights replaced by ws
Reweighted(results, ws) ==
    [i \in 1..Len(results) |-> [results[i] EXCEPT !.weight = ws[i]]]

\* C13: the coherence score is the unweighted mean of outcome * confidence
\* over the results; the weight each result carries has no effect, so a result
\* list that differs only in its weights gives the same score, the same
\* status and the same severity
C13_WeightsIgnored ==
    (fn_in.fn = "run_qec_analysis" /\ fn_out # NoOutput /\ fn_out.exc = "none")
        => LET cert == fn_out.certificate_of_semantic_integrity
               n    == Len(fn_in.results)
           IN  /\ cert.coherence_score = [num |-> PlainSum(fn_in.results, n), den |-> n]
               /\ \A ws \in [1..n -> {70, 100}] :
                      LET other == run_qec_analysis(
                                       fn_out.payload.representations,
                                       Reweighted(fn_in.results, ws),
                                       fn_out.ai_provider_used)
                                   .certificate_of_semantic_integrity
                      IN  /\ other.coherence_score = cert.coherence_score
                          /\ other.status = cert.status
                          /\ other.risk_assessment.severity
                                 = cert.risk_assessment.severity

\* a certificate for two results of unequal weights (1.0 and 0.7), one passed
\* with confidence 0.95 and one failed with confidence 0.35, whose score is
\* the plain mean (0.95 - 0.35) / 2 = 0.30
C13_Witness ==
    /\ fn_in.fn = "run_qec_analysis"
    /\ fn_out # NoOutput
    /\ fn_out.exc = "none"
    /\ Len(fn_in.results) = 2
    /\ fn_in.results[1] = [name |-> "check", outcome |-> 1, confidence |-> 95,
                           weight |-> 100]
    /\ fn_in.results[2] = [name |-> "check", outcome |-> -1, confidence |-> 35,
                           weight |-> 70]
    /\ fn_out.certificate_of_semantic_integrity.coherence_score = [num |-> 60, den |-> 2]

\* the four representations are the Template Library's content for their own
\* kind and for the requirement lsu
AllFromTemplates(reps, lsu) ==
    /\ DOMAIN reps = KindSet
    /\ \A k \in KindSet : reps[k] = [src |-> "template", kind |-> k, lsu |-> lsu]

\* C14: without a provider credential no provider call is made, the provider
\* counters (attempt, success, error) stay unchanged, and each of the four
\* representation kinds is the Template Library's content for that kind and
\* the request's requirement
C14_NoCredentialNoProvider ==
    ~nvidia_api_key
        => /\ calls_issued = 0
           /\ pc[1] # "post"
           /\ \A label \in ProviderLabels : ai_provider_requests[label] = 0
           /\ pc[1] = "analyze"
                  => AllFromTemplates(representations[1], request[1].lsu)
           /\ pc[1] = "returned"
                  => /\ response[1].lsu_input = request[1].lsu
                     /\ AllFromTemplates(
                            response[1].qec_result.payload.representations,
                            request[1].lsu)

\* an analysis of requirement L2 returned by an engine without a credential
C14_Witness ==
    /\ ~nvidia_api_key
    /\ pc[1] = "returned"
    /\ request[1].lsu = "L2"
    /\ calls_issued = 0
    /\ response[1].qec_result.payload.representations[Kinds[2]]
           = [src |-> "template", kind |-> Kinds[2], lsu |-> "L2"]

\* C15: the stabilizer runner returns exactly one result per configured
\* stabilizer, in configuration order, and the certificate's syndrome vector
\* has the length of the result list and of the configured list, its i-th
\* element being the outcome (+1 or -1) of the i-th configured stabilizer;
\* this holds for the reference list of five and for a smaller configured list
C15_OneResultPerConfigured ==
    (fn_in.fn = "run_stabilizer_checks" /\ fn_out # NoOutput)
        => LET configured == fn_in.configured
               results    == fn_out.results
               syndrome   == fn_out.qec.certificate_of_semantic_integrity.syndrome_vector
           IN  /\ Len(results) = Len(configured)
               /\ Len(syndrome) = Len(results)
               /\ \A i \in 1..Len(configured) :
                      /\ results[i].name = configured[i].name
                      /\ results[i].weight = configured[i].weight
                      /\ syndrome[i] = results[i].outcome
                      /\ syndrome[i] \in {1, -1}

\* the part of C15 that the source meets: for the list of five the results
\* follow the list and the syndrome vector holds their outcomes in order
C15_ReferenceListOnly ==
    (fn_in.fn = "run_stabilizer_checks" /\ fn_out # NoOutput)
        => LET results  == fn_out.results
               syndrome == fn_out.qec.certificate_of_semantic_integrity.syndrome_vector
           IN  /\ Len(results) = Len(Stabilizers)
               /\ Len(syndrome) = Len(results)
               /\ \A i \in 1..Len(Stabilizers) :
                      /\ results[i].name = Stabilizers[i].name
                      /\ syndrome[i] = fn_in.draws[i].outcome
                      /\ syndrome[i] \in {1, -1}

====
